---------------------------- MODULE Spec2Model ----------------------------
(***************************************************************************)
(* Model of thonny/vendored_libs/serial/tools/list_ports_windows.py:       *)
(* the serial-port enumerator (iterate_comports / comports), the hub query *)
(* get_usb_info_from_iocontrol, the configuration-block walk of            *)
(* request_usb_interface_descriptions and the ancestor walk of             *)
(* get_parent_serial_number.                                               *)
(*                                                                         *)
(* Four specifications share the module:                                   *)
(*   Spec        one run of iterate_comports with its consumer             *)
(*   SpecDesc    one call of request_usb_interface_descriptions            *)
(*   SpecSerial  one top-level call of get_parent_serial_number            *)
(*   SpecLoc     one call of get_location_string                           *)
(***************************************************************************)
EXTENDS Integers, Sequences, FiniteSets, TLC

VARIABLES
    \* ---- iterate_comports / comports ----
    pc,                   \* position of the generator iterate_comports
    enable_iocontrol,     \* argument of iterate_comports
    consumer,             \* "comports" (list(iterate_comports())) or "lazy"
    GUIDs,                \* PortsGUIDs[:n] + ModemsGUIDs[:m]
    hub_instance_numbers, \* result of get_all_hub_instance_number
    guid_iter,            \* position of the iterator of range(len(GUIDs))
    index,                \* the variable "index" (shared by both loops)
    g_hdi,                \* current device-information-set handle (Option)
    hdi_open,             \* device-information sets obtained and not destroyed
    hdi_count,            \* number of device-information sets obtained so far
    hkey_open,            \* registry keys opened and not closed
    port_name_buffer,     \* PortName value of the current device
    szHardwareID_str,     \* hardware ID of the current device
    info,                 \* the ListPortInfo under construction
    delivered,            \* port names of the PortInfos yielded so far
    comports_result,      \* Option: the list comports() returned
    error,                \* Option: the exception that ended the run
    enumerated,           \* devices SetupDiEnumDeviceInfo has reported in this run
    calls,                \* log: devices reported and the info functions called for them
    \* ---- get_usb_info_from_iocontrol ----
    io_pc,                \* position inside the call, "idle" outside it
    io_result,            \* "none" | "True" | "False" | "raised"  (last call)
    io_walk,              \* iterations of the hub-discovery loop done
    child_instance_number,
    parent_instance_number,
    h_hub_device,         \* Option: handle CreateFileW returned in this call
    hub_closes,           \* hub_closes[h]: CloseHandle calls made on handle h
    connection_info,      \* Option
    device_description,   \* Option
    bConfigurationValue,  \* Option
    bInterfaceNumber,     \* Option
    io_requests,          \* requests this call has sent to the hub for the interface text
    \* ---- request_usb_interface_descriptions ----
    d_pc,                 \* "idle" | "request" | "walk" | "done"
    d_buffer,             \* the configuration block (bytes after the request header)
    wTotalLength,         \* configuration_description.wTotalLength
    d_bInterfaceNumber,   \* the interface number looked for
    common_description_offset,
    result_descriptions,  \* the list result_descriptions
    d_return,             \* Option: the list returned (None: nothing / None returned)
    d_reads,              \* offsets of the block's bytes read so far
    d_iters,              \* loop iterations executed
    \* ---- get_parent_serial_number ----
    s_pc,                 \* "idle" | "call" | "done" | "raised"
    child_vid,            \* Option (info.vid)
    child_pid,            \* Option (info.pid)
    depth,
    last_serial_number,   \* Option text
    s_tree,               \* device IDs of the leaf's ancestors, nearest first
    s_lookups,            \* CM_Get_Parent calls made
    s_inspected,          \* ancestors whose device ID was inspected
    s_result,             \* text returned
    \* ---- get_location_string ----
    l_pc,                 \* "idle" | "call" | "done" | "raised"
    loc_path_str,         \* outcome of get_device_property(..., DEVPKEY_Device_LocationPaths)
    l_bConfigurationValue, \* Option: argument bConfigurationValue
    l_bInterfaceNumber,   \* Option: argument bInterfaceNumber
    l_result,             \* Option text: the value returned
    l_error               \* type of the exception raised, "none" otherwise

evars == <<pc, enable_iocontrol, consumer, GUIDs, hub_instance_numbers, guid_iter,
           index, g_hdi, hdi_open, hdi_count, hkey_open, port_name_buffer, szHardwareID_str,
           info, delivered, comports_result, error, enumerated, calls>>
iovars == <<io_pc, io_result, io_walk, child_instance_number, parent_instance_number,
            h_hub_device, hub_closes, connection_info, device_description,
            bConfigurationValue, bInterfaceNumber, io_requests>>
dvars == <<d_pc, d_buffer, wTotalLength, d_bInterfaceNumber, common_description_offset,
           result_descriptions, d_return, d_reads, d_iters>>
svars == <<s_pc, child_vid, child_pid, depth, last_serial_number, s_tree, s_lookups,
           s_inspected, s_result>>
iolocals == <<io_walk, child_instance_number, parent_instance_number, h_hub_device,
              connection_info, device_description, bConfigurationValue, bInterfaceNumber, io_requests>>
lvars == <<l_pc, loc_path_str, l_bConfigurationValue, l_bInterfaceNumber, l_result, l_error>>
vars == <<evars, iovars, dvars, svars, lvars>>

---------------------------------------------------------------------------
(* Optional values: Python's None is the empty tuple, a value x is <<x>>.   *)
(* Texts are sequences of one-character strings, '' is <<>>.               *)
(* A field of the ListPortInfo holds the name of the source its value came *)
(* from ("iProduct": the result of the string request for iProduct, a      *)
(* string or None), and "None" while nothing has been assigned to it.      *)
None == <<>>
Some(x) == <<x>>
Val(o) == o[1]

\* Python truthiness of an optional text: None and '' are false.
Truthy(o) == o # None /\ Val(o) # <<>>

HexLower == <<"0", "1", "2", "3", "4", "5", "6", "7", "8", "9", "a", "b", "c", "d", "e", "f">>
HexUpper == <<"0", "1", "2", "3", "4", "5", "6", "7", "8", "9", "A", "B", "C", "D", "E", "F">>
DecimalChars == {"0", "1", "2", "3", "4", "5", "6", "7", "8", "9"}
HexCharSet == {HexLower[i] : i \in 1..16} \cup {HexUpper[i] : i \in 1..16}
\* \w : letters, digits and the underscore
WordChars == HexCharSet \cup {"Z", "z", "_"}

DigitValue(c) == (CHOOSE i \in 1..16 : HexLower[i] = c \/ HexUpper[i] = c) - 1

RECURSIVE IntOfText(_, _)
\* int(text, base) for a text every character of which is a digit of the base
IntOfText(text, base) ==
    IF text = <<>> THEN 0
    ELSE IntOfText(SubSeq(text, 1, Len(text) - 1), base) * base + DigitValue(text[Len(text)])

\* re.match of the pattern ^\w+$ (lines 353, 844)
IsWordText(text) == text # <<>> /\ \A i \in 1..Len(text) : text[i] \in WordChars

---------------------------------------------------------------------------
(* Device IDs.  A device ID string is kept as its segments:                *)
(*   bus \ VID_<vid> sep PID_<pid> [&MI_<mi>] [+<ser>] [\ <tail>]          *)
(* vid, pid, mi, ser, tail are optional texts; sep is "&" (USB) or "+"     *)
(* (FTDIBUS).  An ID without a VID_ token has vid = None.                  *)
DeviceId(bus, vid, sep, pid, mi, ser, tail) ==
    [bus |-> bus, vid |-> vid, sep |-> sep, pid |-> pid, mi |-> mi, ser |-> ser, tail |-> tail]

T(s) == Some(s)

\* USB\VID_0403&PID_6001\A1
Id_SameAlnum == DeviceId("USB", T(<<"0","4","0","3">>), "&", T(<<"6","0","0","1">>), None, None, T(<<"A","1">>))
\* USB\VID_0403&PID_6001\A_1
Id_SameUnderscore == DeviceId("USB", T(<<"0","4","0","3">>), "&", T(<<"6","0","0","1">>), None, None, T(<<"A","_","1">>))
\* USB\VID_0403&PID_6001&MI_00\6&2   (composite interface, ephemeral instance ID)
Id_SameEphemeral == DeviceId("USB", T(<<"0","4","0","3">>), "&", T(<<"6","0","0","1">>), T(<<"0","0">>), None, T(<<"6","&","2">>))
\* USB\VID_0403&PID_6001
Id_SameNoSerial == DeviceId("USB", T(<<"0","4","0","3">>), "&", T(<<"6","0","0","1">>), None, None, None)
\* USB\VID_0403\C3   (no PID token)
Id_VidOnly == DeviceId("USB", T(<<"0","4","0","3">>), "&", None, None, None, T(<<"C","3">>))
\* USB\VID_0000&PID_6001\D4   (VID parses to 0)
Id_ZeroVid == DeviceId("USB", T(<<"0","0","0","0">>), "&", T(<<"6","0","0","1">>), None, None, T(<<"D","4">>))
\* USB\VID_0403&PID_6010\E5   (another product)
Id_OtherPid == DeviceId("USB", T(<<"0","4","0","3">>), "&", T(<<"6","0","1","0">>), None, None, T(<<"E","5">>))
\* USB\ROOT_HUB30\4&1   (no VID_ token)
Id_RootHub == DeviceId("USB", None, "&", None, None, None, T(<<"4","&","1">>))
\* FTDIBUS\VID_0403+PID_6001+A1\0000
Id_Ftdi == DeviceId("FTDIBUS", T(<<"0","4","0","3">>), "+", T(<<"6","0","0","1">>), None, T(<<"A","1">>), T(<<"0","0","0","0">>))
\* FTDIBUS\VID_0403+PID_6001+A1\000A
Id_FtdiHexTail == DeviceId("FTDIBUS", T(<<"0","4","0","3">>), "+", T(<<"6","0","0","1">>), None, T(<<"A","1">>), T(<<"0","0","0","A">>))
\* ACPI\PNP0501\1
Id_Acpi == DeviceId("ACPI", None, "&", None, None, None, T(<<"1">>))

(* The search of lines 330-332 and 834: the pattern is the token VID_ with  *)
(* four hex digits (group 1), then optionally &PID_ with four hex digits   *)
(* (group 3), optionally &MI_ with two digits (group 5), optionally a      *)
(* backslash and the rest of the text (group 7).  None when the ID has no  *)
(* VID_ token.  The optional groups match only when they follow the VID    *)
(* directly, which they do not in an FTDIBUS ID ("+" separators).          *)
SearchVidPid(id) ==
    IF id.vid = None THEN None
    ELSE IF id.sep = "&"
         THEN Some([g1 |-> id.vid, g3 |-> id.pid, g5 |-> id.mi, g7 |-> id.tail])
         ELSE Some([g1 |-> id.vid, g3 |-> None, g5 |-> None, g7 |-> None])


---------------------------------------------------------------------------
(* get_parent_serial_number (lines 289-372)                                *)

MAX_USB_DEVICE_TREE_TRAVERSAL_DEPTH == 5

\* Number of ancestors fixed when the call starts; ancestors above them are
\* revealed when CM_Get_Parent reaches them.
MaxTree == 3

\* USB\VID_0403   (leaf without PID and serial)
Id_VidOnlyBare == DeviceId("USB", T(<<"0","4","0","3">>), "&", None, None, None, None)
\* USB\VID_0000&PID_6001\7&3
Id_ZeroVidEphemeral == DeviceId("USB", T(<<"0","0","0","0">>), "&", T(<<"6","0","0","1">>), None, None, T(<<"7","&","3">>))

\* Device IDs CM_Get_Device_IDW may return for an ancestor.
ParentIds == {Id_SameAlnum, Id_SameUnderscore, Id_SameEphemeral, Id_SameNoSerial,
              Id_VidOnly, Id_ZeroVid, Id_OtherPid, Id_RootHub}

\* Leaf IDs for which get_usb_info_from_device_property asks for the parent
\* serial (line 847): group 7 absent or not a word.
LeafIds == {Id_SameEphemeral, Id_VidOnlyBare, Id_ZeroVidEphemeral}

\* int(m.group(k), 16) of an optional group: None stays None (lines 341-344)
HexGroup(g) == IF Truthy(g) THEN Some(IntOfText(Val(g), 16)) ELSE None

\* Variant of NotInt for which only an absent group is missing.
NotIntNoneOnly(o) == o = None
\* "not vid" / "not pid" (line 356): None or 0
NotInt(o) == o = None \/ Val(o) = 0

\* '' if not last_serial_number else last_serial_number  (lines 301, 313, 336, 363)
SerialOrEmpty(last) == IF Truthy(last) THEN Val(last) ELSE <<>>

\* Variant of PassedUpward that passes the validated serial_number.
PassValidated(found, validated) == validated
\* The last_serial_number argument of the recursive calls (lines 349, 358, 368):
\* found_serial_number, the raw token, not the validated serial_number.
PassedUpward(found, validated) == found

\* Lines 329-372: what one level does with the parent's device ID.
\* kind "return": value is the text returned; kind "recurse": value is the
\* last_serial_number passed to the next level.
InspectParent(id, cvid, cpid, last) ==
    LET m == SearchVidPid(id) IN
    IF m = None THEN [kind |-> "return", value |-> SerialOrEmpty(last)]
    ELSE LET vid == HexGroup(Val(m).g1)
             pid == HexGroup(Val(m).g3)
             found_serial_number == IF Truthy(Val(m).g7) THEN Val(m).g7 ELSE None
             serial_number == IF found_serial_number # None /\ ~IsWordText(Val(found_serial_number))
                              THEN None ELSE found_serial_number
         IN IF NotInt(vid) \/ NotInt(pid)
            THEN [kind |-> "recurse", value |-> PassedUpward(found_serial_number, serial_number)]
            ELSE IF pid # cpid \/ vid # cvid
            THEN [kind |-> "return", value |-> SerialOrEmpty(last)]
            ELSE IF ~Truthy(serial_number)
            THEN [kind |-> "recurse", value |-> PassedUpward(found_serial_number, serial_number)]
            ELSE [kind |-> "return", value |-> Val(serial_number)]

\* info.vid / info.pid as get_usb_info_from_device_property parses them from
\* the leaf's hardware ID (lines 834-838).
LeafVid(id) == HexGroup(Val(SearchVidPid(id)).g1)
LeafPid(id) == HexGroup(Val(SearchVidPid(id)).g3)

RECURSIVE SeqsUpTo(_, _)
\* all sequences over S of length at most n
SeqsUpTo(S, n) ==
    IF n = 0 THEN {<<>>}
    ELSE LET shorter == SeqsUpTo(S, n - 1)
         IN shorter \cup {Append(t, x) : t \in {u \in shorter : Len(u) = n - 1}, x \in S}

IdleSerial ==
    /\ s_pc = "idle" /\ child_vid = None /\ child_pid = None /\ depth = 0
    /\ last_serial_number = None /\ s_tree = <<>> /\ s_lookups = 0 /\ s_inspected = 0
    /\ s_result = <<>>

\* get_parent_serial_number(devinfo.DevInst, info.vid, info.pid): depth = 0,
\* last_serial_number = None (line 289).
InitSerial ==
    /\ s_pc = "call"
    /\ \E leaf \in LeafIds : child_vid = LeafVid(leaf) /\ child_pid = LeafPid(leaf)
    /\ depth = 0
    /\ last_serial_number = None
    /\ s_tree \in SeqsUpTo(ParentIds, MaxTree)
    /\ s_lookups = 0
    /\ s_inspected = 0
    /\ s_result = <<>>

\* Lines 300-301: the depth bound.
SerialDepthExceeded ==
    /\ s_pc = "call"
    /\ depth > MAX_USB_DEVICE_TREE_TRAVERSAL_DEPTH
    /\ s_result' = SerialOrEmpty(last_serial_number)
    /\ s_pc' = "done"
    /\ UNCHANGED <<child_vid, child_pid, depth, last_serial_number, s_tree, s_lookups, s_inspected>>
    /\ UNCHANGED <<evars, iovars, dvars, lvars>>

\* Lines 305-313: CM_Get_Parent fails with ERROR_NOT_FOUND (the child is the root).
SerialNoParent ==
    /\ s_pc = "call"
    /\ depth <= MAX_USB_DEVICE_TREE_TRAVERSAL_DEPTH
    /\ depth = Len(s_tree)
    /\ s_lookups' = s_lookups + 1
    /\ s_result' = SerialOrEmpty(last_serial_number)
    /\ s_pc' = "done"
    /\ UNCHANGED <<child_vid, child_pid, depth, last_serial_number, s_tree, s_inspected>>
    /\ UNCHANGED <<evars, iovars, dvars, lvars>>

\* Lines 307-315: CM_Get_Parent fails with another error: raise WinError.
SerialParentError ==
    /\ s_pc = "call"
    /\ depth <= MAX_USB_DEVICE_TREE_TRAVERSAL_DEPTH
    /\ s_lookups' = s_lookups + 1
    /\ s_pc' = "raised"
    /\ UNCHANGED <<child_vid, child_pid, depth, last_serial_number, s_tree, s_inspected, s_result>>
    /\ UNCHANGED <<evars, iovars, dvars, lvars>>

\* Lines 320-327: the parent exists, CM_Get_Device_IDW fails: raise WinError.
SerialDeviceIdError ==
    /\ s_pc = "call"
    /\ depth <= MAX_USB_DEVICE_TREE_TRAVERSAL_DEPTH
    /\ depth < Len(s_tree) \/ Len(s_tree) >= MaxTree
    /\ s_lookups' = s_lookups + 1
    /\ s_pc' = "raised"
    /\ UNCHANGED <<child_vid, child_pid, depth, last_serial_number, s_tree, s_inspected, s_result>>
    /\ UNCHANGED <<evars, iovars, dvars, lvars>>

\* Lines 305-372: both lookups succeed; the parent's ID is inspected and the
\* level returns or calls itself for the parent with depth + 1.
SerialInspect ==
    /\ s_pc = "call"
    /\ depth <= MAX_USB_DEVICE_TREE_TRAVERSAL_DEPTH
    /\ \E id \in (IF depth < Len(s_tree) THEN {s_tree[depth + 1]}
                  ELSE IF Len(s_tree) >= MaxTree THEN ParentIds ELSE {}) :
          LET r == InspectParent(id, child_vid, child_pid, last_serial_number) IN
          /\ s_tree' = IF depth < Len(s_tree) THEN s_tree ELSE Append(s_tree, id)
          /\ s_lookups' = s_lookups + 1
          /\ s_inspected' = s_inspected + 1
          /\ IF r.kind = "return"
             THEN /\ s_result' = r.value
                  /\ s_pc' = "done"
                  /\ UNCHANGED <<depth, last_serial_number>>
             ELSE /\ depth' = depth + 1
                  /\ last_serial_number' = r.value
                  /\ UNCHANGED <<s_result, s_pc>>
    /\ UNCHANGED <<child_vid, child_pid>>
    /\ UNCHANGED <<evars, iovars, dvars, lvars>>

NextSerial ==
    \/ SerialDepthExceeded
    \/ SerialNoParent
    \/ SerialParentError
    \/ SerialDeviceIdError
    \/ SerialInspect

---------------------------------------------------------------------------
(* request_usb_interface_descriptions (lines 445-501)                      *)

USB_INTERFACE_DESCRIPTOR_TYPE == 4
\* ctypes.sizeof(USB_COMMON_DESCRIPTOR): bLength, bDescriptorType
SizeofCommonDescriptor == 2
\* ctypes.sizeof(USB_INTERFACE_DESCRIPTOR): nine c_uint8 fields
SizeofInterfaceDescriptor == 9
\* ctypes.sizeof(USB_DESCRIPTOR_REQUEST): ULONG ConnectionIndex + 8-byte SetupPacket
SizeofDescriptorRequest == 12

\* Descriptors a configuration block is made of (at most MaxDescriptors).
MaxDescriptors == 3
\* Loop iterations followed by the model.
MaxWalkIters == 6

\* configuration descriptor header
D_Config == <<9, 2, 0, 0, 1, 1, 0, 0, 0>>
\* interface 0, alternate setting 0, iInterface 1
D_If0 == <<9, 4, 0, 0, 0, 0, 0, 0, 1>>
\* interface 1, alternate setting 0, iInterface 2
D_If1 == <<9, 4, 1, 0, 0, 0, 0, 0, 2>>
\* endpoint descriptor
D_Endpoint == <<7, 5, 0, 0, 0, 0, 0>>
\* zero bytes (a short transfer leaves the tail of the buffer zeroed)
D_ZeroPad == <<0, 0>>
\* zero-length header of interface type
D_ZeroIf == <<0, 4>>
\* header whose bLength runs past the block
D_Overlong == <<40, 5>>
\* interface-type header of the wrong length
D_ShortIf == <<7, 4, 0, 0, 0, 0, 0>>
\* interface descriptor cut off by the end of the block
D_TruncIf == <<9, 4, 0>>

DescriptorCatalogue == {D_Config, D_If0, D_If1, D_Endpoint, D_ZeroPad, D_ZeroIf,
                        D_Overlong, D_ShortIf, D_TruncIf}

RECURSIVE Flatten(_)
Flatten(ss) == IF ss = <<>> THEN <<>> ELSE Head(ss) \o Flatten(Tail(ss))

\* The byte of the configuration block at a 0-based offset.  An offset past
\* the block reads memory that is not the block's.
ByteAt(offset) == IF offset < Len(d_buffer) THEN d_buffer[offset + 1] ELSE 0

\* common_description.contents.bLength / bDescriptorType at an offset (lines 479-482)
HeaderLength(offset) == ByteAt(offset)
HeaderType(offset) == ByteAt(offset + 1)

\* Line 478: the header is read only if it ends before wTotalLength.
HeaderFits(offset, total) == offset + SizeofCommonDescriptor < total

\* Variant of BodyFits that compares with the size of the request buffer.
BodyFitsRequestBuffer(offset, length, total) == offset + length <= total + SizeofDescriptorRequest
\* Line 483: the descriptor must end inside the block.
BodyFits(offset, length, total) == offset + length <= total

IdleDesc ==
    /\ d_pc = "idle" /\ d_buffer = <<>> /\ wTotalLength = 0 /\ d_bInterfaceNumber = 0
    /\ common_description_offset = 0 /\ result_descriptions = <<>> /\ d_return = None
    /\ d_reads = {} /\ d_iters = 0

InitDesc ==
    /\ d_pc = "request"
    /\ \E ds \in SeqsUpTo(DescriptorCatalogue, MaxDescriptors) : d_buffer = Flatten(ds)
    /\ wTotalLength = Len(d_buffer)
    /\ d_bInterfaceNumber \in {0, 1}
    /\ common_description_offset = 0
    /\ result_descriptions = <<>>
    /\ d_return = None
    /\ d_reads = {}
    /\ d_iters = 0

\* Lines 462-472: DeviceIoControl fails, the function returns None.
DescRequestFail ==
    /\ d_pc = "request"
    /\ d_pc' = "done"
    /\ d_return' = None
    /\ UNCHANGED <<d_buffer, wTotalLength, d_bInterfaceNumber, common_description_offset,
                   result_descriptions, d_reads, d_iters>>
    /\ UNCHANGED <<evars, iovars, svars, lvars>>

\* Lines 462-476: DeviceIoControl succeeds, the walk starts at offset 0.
DescRequestOk ==
    /\ d_pc = "request"
    /\ d_pc' = "walk"
    /\ common_description_offset' = 0
    /\ result_descriptions' = <<>>
    /\ UNCHANGED <<d_buffer, wTotalLength, d_bInterfaceNumber, d_return, d_reads, d_iters>>
    /\ UNCHANGED <<evars, iovars, svars, lvars>>

\* break + return result_descriptions (lines 495-501)
WalkBreak ==
    /\ d_pc' = "done"
    /\ d_return' = Some(result_descriptions)
    /\ UNCHANGED <<common_description_offset, result_descriptions>>

WalkFrame ==
    /\ d_iters' = d_iters + 1
    /\ UNCHANGED <<d_buffer, wTotalLength, d_bInterfaceNumber, io_requests>>
    /\ UNCHANGED <<evars, iovars, svars, lvars>>

HeaderBytes(offset) == offset .. (offset + SizeofCommonDescriptor - 1)
InterfaceBytes(offset) == offset .. (offset + SizeofInterfaceDescriptor - 1)

\* Lines 478, 499-500: no room for another header.
WalkNoHeader ==
    /\ d_pc = "walk" /\ d_iters < MaxWalkIters
    /\ ~HeaderFits(common_description_offset, wTotalLength)
    /\ WalkBreak
    /\ UNCHANGED d_reads
    /\ WalkFrame

\* Lines 483, 497-498: the header's bLength runs past wTotalLength.
WalkOverrun ==
    /\ d_pc = "walk" /\ d_iters < MaxWalkIters
    /\ HeaderFits(common_description_offset, wTotalLength)
    /\ ~BodyFits(common_description_offset, HeaderLength(common_description_offset), wTotalLength)
    /\ d_reads' = d_reads \cup HeaderBytes(common_description_offset)
    /\ WalkBreak
    /\ WalkFrame

\* Lines 484-485, 494-495: interface type, bLength is not sizeof(USB_INTERFACE_DESCRIPTOR).
WalkBadInterface ==
    /\ d_pc = "walk" /\ d_iters < MaxWalkIters
    /\ HeaderFits(common_description_offset, wTotalLength)
    /\ BodyFits(common_description_offset, HeaderLength(common_description_offset), wTotalLength)
    /\ HeaderType(common_description_offset) = USB_INTERFACE_DESCRIPTOR_TYPE
    /\ HeaderLength(common_description_offset) # SizeofInterfaceDescriptor
    /\ d_reads' = d_reads \cup HeaderBytes(common_description_offset)
    /\ WalkBreak
    /\ WalkFrame

\* Lines 484-493, 496: an interface descriptor; it is copied when its
\* bInterfaceNumber is the one looked for, and the offset advances.
WalkInterface ==
    /\ d_pc = "walk" /\ d_iters < MaxWalkIters
    /\ HeaderFits(common_description_offset, wTotalLength)
    /\ BodyFits(common_description_offset, HeaderLength(common_description_offset), wTotalLength)
    /\ HeaderType(common_description_offset) = USB_INTERFACE_DESCRIPTOR_TYPE
    /\ HeaderLength(common_description_offset) = SizeofInterfaceDescriptor
    /\ d_reads' = d_reads \cup InterfaceBytes(common_description_offset)
    /\ result_descriptions' =
          IF ByteAt(common_description_offset + 2) = d_bInterfaceNumber
          THEN Append(result_descriptions,
                      [i \in 1..SizeofInterfaceDescriptor |-> ByteAt(common_description_offset + i - 1)])
          ELSE result_descriptions
    /\ common_description_offset' = common_description_offset + HeaderLength(common_description_offset)
    /\ UNCHANGED <<d_pc, d_return>>
    /\ WalkFrame

\* Lines 484, 496: any other descriptor type: the offset advances by bLength.
WalkOther ==
    /\ d_pc = "walk" /\ d_iters < MaxWalkIters
    /\ HeaderFits(common_description_offset, wTotalLength)
    /\ BodyFits(common_description_offset, HeaderLength(common_description_offset), wTotalLength)
    /\ HeaderType(common_description_offset) # USB_INTERFACE_DESCRIPTOR_TYPE
    /\ d_reads' = d_reads \cup HeaderBytes(common_description_offset)
    /\ common_description_offset' = common_description_offset + HeaderLength(common_description_offset)
    /\ UNCHANGED <<d_pc, d_return, result_descriptions>>
    /\ WalkFrame

NextDesc ==
    \/ DescRequestFail
    \/ DescRequestOk
    \/ WalkNoHeader
    \/ WalkOverrun
    \/ WalkBadInterface
    \/ WalkInterface
    \/ WalkOther

---------------------------------------------------------------------------
(* iterate_comports (lines 902-1011) and comports (lines 1014-1016)        *)

\* GUIDs SetupDiClassGuidsFromName reports for one class name.
MaxGuidsPerClass == 1
\* Devices SetupDiEnumDeviceInfo reports in one run, over all classes.
MaxEnumerated == 2

\* Instance numbers: the port's devnode is 0, its n-th ancestor is n.
PortDevInst == 0
\* Values get_all_hub_instance_number may return.
HubSets == {<<>>, <<2>>, <<5>>, <<6>>, <<5, 2>>}

\* "" : the buffer left empty when SPDRP_HARDWAREID reports ERROR_INSUFFICIENT_BUFFER
Id_Empty == DeviceId("", None, "&", None, None, None, None)

\* Hardware IDs of the enumerated devices.
HardwareIds == {Id_SameEphemeral, Id_SameAlnum, Id_Ftdi, Id_FtdiHexTail, Id_Acpi}

Digits == <<"0", "1", "2", "3", "4", "5", "6", "7", "8", "9">>
\* PortName of the index-th device of the set with handle h.
ComName(h, i) == <<"C", "O", "M", Digits[h + 1], Digits[i + 1]>>
LptName == <<"L", "P", "T", "1">>

\* str.startswith
StartsWith(text, prefix) ==
    Len(text) >= Len(prefix) /\ SubSeq(text, 1, Len(prefix)) = prefix

\* list_ports_common.ListPortInfo(port_name_buffer.value, skip_link_detection=True), line 992
NewPortInfo(name) ==
    [device |-> name, name |-> "basename", description |-> "n/a", hwid |-> "n/a",
     vid |-> "None", pid |-> "None", serial_number |-> "None", location |-> "None",
     manufacturer |-> "None", product |-> "None", interface |-> "None"]

NoInfo == NewPortInfo(<<>>)

Exception(type, origin) == Some([type |-> type, origin |-> origin])

\* Variant of ListCompletes in which comports returns what it has on an error.
ListCompletesOnError(p) == p \in {"done", "raised"}
\* list(iterate_comports()) (line 1016) returns only when the generator is exhausted.
ListCompletes(p) == p = "done"

\* Entries of the log: a device reported by SetupDiEnumDeviceInfo with its
\* PortName (line 939), a return of get_usb_info_from_iocontrol (line 998),
\* a call of get_usb_info_from_device_property (lines 1005, 1008).
Reported(name) == [op |-> "SetupDiEnumDeviceInfo", device |-> name, result |-> "none"]
IoReturned(name, result) == [op |-> "get_usb_info_from_iocontrol", device |-> name, result |-> result]
FallbackCalled(name) == [op |-> "get_usb_info_from_device_property", device |-> name, result |-> "none"]
\* SetupDiGetClassDevs(byref(GUIDs[index]), ...) of line 930, by the text of the GUID.
GuidText(guid) == <<guid[1], Digits[guid[2] + 1]>>
\* get_all_hub_instance_number() of line 926.
HubsEnumerated == [op |-> "get_all_hub_instance_number", device |-> <<>>, result |-> "none"]
\* Line 942: SetupDiOpenDevRegKey gives an open registry key.
SetupDiOpenDevRegKey(keys) == keys + 1
\* Line 958: RegCloseKey(hkey)
RegCloseKey(keys) == keys - 1
ClassDevsRequested(guid) == [op |-> "SetupDiGetClassDevs", device |-> GuidText(guid), result |-> "none"]

erest == <<enable_iocontrol, consumer, GUIDs, hub_instance_numbers, guid_iter, index,
           g_hdi, hdi_open, hdi_count, hkey_open, port_name_buffer, szHardwareID_str, delivered,
           comports_result, enumerated>>

IdleIo ==
    /\ io_pc = "idle" /\ io_result = "none" /\ io_walk = 0
    /\ child_instance_number = PortDevInst /\ parent_instance_number = None
    /\ h_hub_device = None /\ connection_info = None /\ device_description = None
    /\ bConfigurationValue = None /\ bInterfaceNumber = None /\ io_requests = <<>>

IdleEnum ==
    /\ pc = "idle" /\ enable_iocontrol = FALSE /\ consumer = "lazy" /\ GUIDs = <<>>
    /\ hub_instance_numbers = <<>> /\ guid_iter = 0 /\ index = 0 /\ g_hdi = None
    /\ hdi_open = {} /\ hdi_count = 0 /\ hkey_open = 0 /\ port_name_buffer = <<>>
    /\ szHardwareID_str = Id_Empty /\ info = NoInfo /\ delivered = <<>>
    /\ comports_result = None /\ error = None /\ enumerated = 0 /\ calls = <<>>
    /\ hub_closes = <<>>
    /\ IdleIo

\* comports calls iterate_comports() with the default enable_iocontrol=True
\* (lines 902, 1016); a direct caller of iterate_comports chooses.
InitEnum ==
    /\ pc = "ports_guids"
    /\ consumer \in {"comports", "lazy"}
    /\ enable_iocontrol \in (IF consumer = "comports" THEN {TRUE} ELSE BOOLEAN)
    /\ GUIDs = <<>> /\ hub_instance_numbers = <<>> /\ guid_iter = 0 /\ index = 0
    /\ g_hdi = None /\ hdi_open = {} /\ hdi_count = 0 /\ hkey_open = 0 /\ port_name_buffer = <<>>
    /\ szHardwareID_str = Id_Empty /\ info = NoInfo /\ delivered = <<>>
    /\ comports_result = None /\ error = None /\ enumerated = 0 /\ calls = <<>>
    /\ hub_closes = <<>>
    /\ IdleIo

\* Lines 904-911: SetupDiClassGuidsFromName("Ports") fails (WinError) or
\* reports ports_guids_size GUIDs.
ResolvePortsGuids ==
    /\ UNCHANGED calls
    /\ pc = "ports_guids"
    /\ \/ /\ pc' = "raised"
          /\ error' = Exception("WinError", "SetupDiClassGuidsFromName")
          /\ UNCHANGED GUIDs
       \/ /\ \E n \in 0..MaxGuidsPerClass : GUIDs' = [i \in 1..n |-> <<"Ports", i>>]
          /\ pc' = "modem_guids"
          /\ UNCHANGED error
    /\ UNCHANGED <<enable_iocontrol, consumer, hub_instance_numbers, guid_iter, index, g_hdi,
                   hdi_open, hdi_count, hkey_open, port_name_buffer, szHardwareID_str, info, delivered,
                   comports_result, enumerated>>
    /\ UNCHANGED <<iovars, dvars, svars, lvars>>

\* Lines 913-922: the same for "Modem"; GUIDs is the Ports GUIDs followed by
\* the Modem GUIDs.
ResolveModemGuids ==
    /\ UNCHANGED calls
    /\ pc = "modem_guids"
    /\ \/ /\ pc' = "raised"
          /\ error' = Exception("WinError", "SetupDiClassGuidsFromName")
          /\ UNCHANGED GUIDs
       \/ /\ \E n \in 0..MaxGuidsPerClass : GUIDs' = GUIDs \o [i \in 1..n |-> <<"Modem", i>>]
          /\ pc' = "hubs"
          /\ UNCHANGED error
    /\ UNCHANGED <<enable_iocontrol, consumer, hub_instance_numbers, guid_iter, index, g_hdi,
                   hdi_open, hdi_count, hkey_open, port_name_buffer, szHardwareID_str, info, delivered,
                   comports_result, enumerated>>
    /\ UNCHANGED <<iovars, dvars, svars, lvars>>

\* Lines 925-926 with get_all_hub_instance_number (lines 638-654): the hub
\* device-information set is obtained (ValidHandle raises WinError when
\* SetupDiGetClassDevs returns 0), enumerated and destroyed.
GetAllHubInstanceNumber ==
    /\ calls' = Append(calls, HubsEnumerated)
    /\ pc = "hubs"
    /\ enable_iocontrol
    /\ \/ /\ pc' = "raised"
          /\ error' = Exception("WinError", "get_all_hub_instance_number")
          /\ UNCHANGED <<hub_instance_numbers, hdi_count>>
       \/ /\ hub_instance_numbers' \in HubSets
          /\ hdi_count' = hdi_count + 1
          /\ pc' = "guid_loop"
          /\ UNCHANGED error
    /\ UNCHANGED <<enable_iocontrol, consumer, GUIDs, guid_iter, index, g_hdi, hdi_open,
                   hkey_open, port_name_buffer, szHardwareID_str, info, delivered, comports_result,
                   enumerated>>
    /\ UNCHANGED <<iovars, dvars, svars, lvars>>

\* Line 925: enable_iocontrol is false, no hub enumeration.
SkipHubs ==
    /\ UNCHANGED calls
    /\ pc = "hubs"
    /\ ~enable_iocontrol
    /\ pc' = "guid_loop"
    /\ UNCHANGED <<error, info>>
    /\ UNCHANGED erest
    /\ UNCHANGED <<iovars, dvars, svars, lvars>>

\* Variant of RangeNext in which the loop goes on from the variable index,
\* as a counting loop over index would.
NextFromIndex(iter, idx) == idx
\* Line 929: the value "for index in range(len(GUIDs))" assigns next comes
\* from the iterator of the range object, whatever index holds.
RangeNext(iter, idx) == iter

\* Lines 929-938: the for loop assigns the next value of range(len(GUIDs))
\* to index, the device-information set of GUIDs[index] is obtained and
\* index is reset to 0.
NextGuid ==
    /\ pc = "guid_loop"
    /\ LET i == RangeNext(guid_iter, index) IN
          /\ i < Len(GUIDs)
          /\ guid_iter' = i + 1
          /\ calls' = Append(calls, ClassDevsRequested(GUIDs[i + 1]))
          /\ \/ /\ pc' = "raised"
                /\ error' = Exception("WinError", "SetupDiGetClassDevs")
                /\ index' = i
                /\ UNCHANGED <<g_hdi, hdi_open, hdi_count>>
             \/ /\ hdi_count' = hdi_count + 1
                /\ g_hdi' = Some(hdi_count + 1)
                /\ hdi_open' = hdi_open \cup {hdi_count + 1}
                /\ index' = 0
                /\ pc' = "enum"
                /\ UNCHANGED error
    /\ UNCHANGED <<enable_iocontrol, consumer, GUIDs, hub_instance_numbers, hkey_open,
                   port_name_buffer, szHardwareID_str, info, delivered, comports_result,
                   enumerated>>
    /\ UNCHANGED <<iovars, dvars, svars, lvars>>

\* Line 929: range(len(GUIDs)) is exhausted, the generator ends.
GuidsExhausted ==
    /\ UNCHANGED calls
    /\ pc = "guid_loop"
    /\ RangeNext(guid_iter, index) >= Len(GUIDs)
    /\ pc' = "done"
    /\ UNCHANGED <<error, info>>
    /\ UNCHANGED erest
    /\ UNCHANGED <<iovars, dvars, svars, lvars>>

\* Variant of SetupDiDestroyDeviceInfoList that leaves the set open.
KeepDeviceInfoList(open, h) == open
\* Line 1011: the device-information set h is destroyed.
SetupDiDestroyDeviceInfoList(open, h) == open \ {h}

\* Lines 939, 1011: SetupDiEnumDeviceInfo reports no device at index; the
\* device-information set is destroyed.
EnumExhausted ==
    /\ UNCHANGED calls
    /\ pc = "enum"
    /\ hdi_open' = SetupDiDestroyDeviceInfoList(hdi_open, Val(g_hdi))
    /\ pc' = "guid_loop"
    /\ UNCHANGED <<enable_iocontrol, consumer, GUIDs, hub_instance_numbers, guid_iter, index,
                   g_hdi, hdi_count, hkey_open, port_name_buffer, szHardwareID_str, info, delivered,
                   comports_result, error, enumerated>>
    /\ UNCHANGED <<iovars, dvars, svars, lvars>>

\* Lines 939-965: a device whose PortName starts with 'LPT' is skipped.
EnumSkipParallel ==
    /\ pc = "enum"
    /\ enumerated < MaxEnumerated
    /\ enumerated' = enumerated + 1
    /\ index' = index + 1
    /\ hkey_open' = RegCloseKey(SetupDiOpenDevRegKey(hkey_open))
    /\ port_name_buffer' = LptName
    /\ calls' = Append(calls, Reported(port_name_buffer'))
    /\ StartsWith(port_name_buffer', <<"L", "P", "T">>)
    /\ UNCHANGED <<pc, enable_iocontrol, consumer, GUIDs, hub_instance_numbers, guid_iter,
                   g_hdi, hdi_open, hdi_count, szHardwareID_str, info, delivered,
                   comports_result, error>>
    /\ UNCHANGED <<iovars, dvars, svars, lvars>>

\* Lines 939-988: SetupDiGetDeviceInstanceId and the SPDRP_HARDWAREID
\* fallback both fail, the last error is not ERROR_INSUFFICIENT_BUFFER:
\* WinError is raised.
EnumHardwareIdError ==
    /\ pc = "enum"
    /\ enumerated < MaxEnumerated
    /\ enumerated' = enumerated + 1
    /\ index' = index + 1
    /\ hkey_open' = RegCloseKey(SetupDiOpenDevRegKey(hkey_open))
    /\ port_name_buffer' = ComName(Val(g_hdi), index)
    /\ calls' = Append(calls, Reported(port_name_buffer'))
    /\ ~StartsWith(port_name_buffer', <<"L", "P", "T">>)
    /\ pc' = "raised"
    /\ error' = Exception("WinError", "SetupDiGetDeviceRegistryProperty")
    /\ UNCHANGED <<enable_iocontrol, consumer, GUIDs, hub_instance_numbers, guid_iter,
                   g_hdi, hdi_open, hdi_count, szHardwareID_str, info, delivered,
                   comports_result>>
    /\ UNCHANGED <<iovars, dvars, svars, lvars>>

\* Lines 939-1008: a serial device: its hardware ID is read (left empty on
\* ERROR_INSUFFICIENT_BUFFER), a ListPortInfo is created and the USB
\* identity path (enable_iocontrol) or the fallback is entered.
EnumDevice ==
    /\ pc = "enum"
    /\ enumerated < MaxEnumerated
    /\ enumerated' = enumerated + 1
    /\ index' = index + 1
    /\ hkey_open' = RegCloseKey(SetupDiOpenDevRegKey(hkey_open))
    /\ port_name_buffer' = ComName(Val(g_hdi), index)
    /\ calls' = Append(calls, Reported(port_name_buffer'))
    /\ ~StartsWith(port_name_buffer', <<"L", "P", "T">>)
    /\ szHardwareID_str' \in HardwareIds \cup {Id_Empty}
    /\ info' = NewPortInfo(port_name_buffer')
    /\ IF enable_iocontrol
       THEN /\ pc' = "iocontrol"
            /\ io_pc' = "walk"
            /\ io_result' = "none"
            /\ io_walk' = 0
            /\ child_instance_number' = PortDevInst
            /\ parent_instance_number' = None
            /\ h_hub_device' = None
            /\ connection_info' = None
            /\ device_description' = None
            /\ bConfigurationValue' = None
            /\ bInterfaceNumber' = None
            /\ io_requests' = <<>>
            /\ UNCHANGED hub_closes
       ELSE /\ pc' = "fallback"
            /\ UNCHANGED iovars
    /\ UNCHANGED <<enable_iocontrol, consumer, GUIDs, hub_instance_numbers, guid_iter,
                   g_hdi, hdi_open, hdi_count, delivered, comports_result, error>>
    /\ UNCHANGED <<dvars, svars, lvars>>

---------------------------------------------------------------------------
(* get_usb_info_from_iocontrol (lines 689-826)                             *)

\* Outcomes of get_device_property (lines 605-635): the property is absent
\* (None), has a value, or has a type the function raises NotImplementedError for.
PropertyOutcomes == {"absent", "value", "unsupported"}

\* A location path is kept as its USBROOT index, its #USB port tokens and
\* its optional trailing #USBMI number.
\* PCIROOT(0)#PCI(1400)#USBROOT(0)#USB(3)#USB(1)
Path_Plain == [root |-> <<"0">>, ports |-> <<<<"3">>, <<"1">>>>, usbmi |-> None]
\* PCIROOT(0)#PCI(1400)#USBROOT(0)#USB(3)#USB(1)#USBMI(1)
Path_Mi == [root |-> <<"0">>, ports |-> <<<<"3">>, <<"1">>>>, usbmi |-> T(<<"1">>)]

\* Values of DEVPKEY_Device_LocationPaths (a string list).
LocationPathsValues == {<<Path_Plain>>, <<Path_Plain, Path_Mi>>}

AllIn(text, chars) == \A i \in 1..Len(text) : text[i] \in chars

\* parse_interface_number_from_hardware_id (lines 676-686).
\* USB: the whole ID is USB\VID_hhhh&PID_hhhh&MI_dd\<rest>; the result is int(dd).
\* FTDIBUS: the whole ID is FTDIBUS\VID_hhhh+PID_hhhh+<any>\<hex digits>; the
\* result is int(<hex digits>), in base 10, which raises ValueError for an
\* empty text and for a text with a letter.
parse_interface_number_from_hardware_id(id) ==
    IF id.bus = "USB" /\ id.sep = "&" /\ id.vid # None /\ id.pid # None /\ id.mi # None
       /\ id.tail # None
    THEN [kind |-> "value", value |-> Some(IntOfText(Val(id.mi), 10))]
    ELSE IF id.bus = "FTDIBUS" /\ id.sep = "+" /\ id.vid # None /\ id.pid # None
            /\ id.ser # None /\ id.tail # None /\ AllIn(Val(id.tail), HexCharSet)
    THEN IF Val(id.tail) # <<>> /\ AllIn(Val(id.tail), DecimalChars)
         THEN [kind |-> "value", value |-> Some(IntOfText(Val(id.tail), 10))]
         ELSE [kind |-> "ValueError", value |-> None]
    ELSE [kind |-> "value", value |-> None]

RECURSIVE FirstUsbMi(_)
\* Lines 775-780: the number of the first path that ends in #USBMI(<digits>).
FirstUsbMi(paths) ==
    IF paths = <<>> THEN None
    ELSE IF Head(paths).usbmi # None THEN Some(IntOfText(Val(Head(paths).usbmi), 10))
    ELSE FirstUsbMi(Tail(paths))

\* CloseHandle(h)
CloseHandle(closes, h) == [closes EXCEPT ![h] = @ + 1]

\* Variant of CloseOnDescriptorFailure that forgets the handle.
NoCloseOnDescriptorFailure(closes, h) == closes
\* Line 747: the handle is closed before the early return.
CloseOnDescriptorFailure(closes, h) == CloseHandle(closes, h)

\* Variant of CloseOnSuccess that returns True with the handle still open.
LeaveOpenOnSuccess(closes, h) == closes
\* Line 825: the handle is closed before "return True".
CloseOnSuccess(closes, h) == CloseHandle(closes, h)

\* The local variables of get_usb_info_from_iocontrol, which exist while
\* the call is active.
PopFrame ==
    /\ io_walk' = 0
    /\ child_instance_number' = PortDevInst
    /\ parent_instance_number' = None
    /\ h_hub_device' = None
    /\ connection_info' = None
    /\ device_description' = None
    /\ bConfigurationValue' = None
    /\ bInterfaceNumber' = None
    /\ io_requests' = <<>>

\* Variant of IoReturnFalse after which the port is yielded without the fallback.
IoFalseSkipsFallback ==
    /\ calls' = Append(calls, IoReturned(port_name_buffer, "False"))
    /\ io_pc' = "idle"
    /\ io_result' = "False"
    /\ pc' = "at_yield"
    /\ UNCHANGED error
    /\ PopFrame
\* "return False": iterate_comports goes on with the fallback (lines 998-1005).
IoReturnFalse ==
    /\ calls' = Append(calls, IoReturned(port_name_buffer, "False"))
    /\ io_pc' = "idle"
    /\ io_result' = "False"
    /\ pc' = "fallback"
    /\ UNCHANGED error
    /\ PopFrame

\* Variant of IoReturnTrue without the return statement: the call gives None,
\* which the "not" of line 998 treats like False.
IoFallsOffEnd ==
    /\ calls' = Append(calls, IoReturned(port_name_buffer, "False"))
    /\ io_pc' = "idle"
    /\ io_result' = "False"
    /\ pc' = "fallback"
    /\ UNCHANGED error
    /\ PopFrame
\* "return True" (line 826): iterate_comports goes on to the yield.
IoReturnTrue ==
    /\ calls' = Append(calls, IoReturned(port_name_buffer, "True"))
    /\ io_pc' = "idle"
    /\ io_result' = "True"
    /\ pc' = "at_yield"
    /\ UNCHANGED error
    /\ PopFrame

\* An exception leaves get_usb_info_from_iocontrol and, with no handler in
\* iterate_comports, ends the generator.
IoRaise(type) ==
    /\ UNCHANGED calls
    /\ io_pc' = "idle"
    /\ io_result' = "raised"
    /\ pc' = "raised"
    /\ error' = Exception(type, "get_usb_info_from_iocontrol")
    /\ PopFrame

IoGoto(next) ==
    /\ UNCHANGED calls
    /\ io_pc' = next
    /\ UNCHANGED <<io_result, pc, error>>

\* Variant of IsHubInstance for which no instance number is a hub's.
NoHubInstance(n) == FALSE
\* Line 706: parent_instance_number in hub_instance_numbers
IsHubInstance(n) == \E i \in 1..Len(hub_instance_numbers) : hub_instance_numbers[i] = n

\* Lines 701-709: one iteration of the hub-discovery loop.
IoParentLookup ==
    /\ pc = "iocontrol" /\ io_pc = "walk"
    /\ io_walk < MAX_USB_DEVICE_TREE_TRAVERSAL_DEPTH
    /\ \/ IoReturnFalse
       \/ /\ parent_instance_number' = Some(child_instance_number + 1)
          /\ IF IsHubInstance(child_instance_number + 1)
             THEN /\ IoGoto("address")
                  /\ UNCHANGED <<io_walk, child_instance_number>>
             ELSE /\ child_instance_number' = child_instance_number + 1
                  /\ io_walk' = io_walk + 1
                  /\ IoGoto("walk")
          /\ UNCHANGED <<h_hub_device, connection_info, device_description,
                         bConfigurationValue, bInterfaceNumber, io_requests>>
    /\ UNCHANGED <<hub_closes, info>>
    /\ UNCHANGED erest
    /\ UNCHANGED <<dvars, svars, lvars>>

\* Lines 710-712: the loop ended without a hub.
IoWalkExhausted ==
    /\ pc = "iocontrol" /\ io_pc = "walk"
    /\ io_walk >= MAX_USB_DEVICE_TREE_TRAVERSAL_DEPTH
    /\ IoReturnFalse
    /\ UNCHANGED <<hub_closes, info>>
    /\ UNCHANGED erest
    /\ UNCHANGED <<dvars, svars, lvars>>

\* Lines 716-718: the hub port number, DEVPKEY_Device_Address of the USB device.
IoAddress ==
    /\ pc = "iocontrol" /\ io_pc = "address"
    /\ \E r \in PropertyOutcomes :
          CASE r = "absent" -> IoReturnFalse
            [] r = "unsupported" -> IoRaise("NotImplementedError")
            [] r = "value" -> /\ IoGoto("instance_id")
                              /\ UNCHANGED iolocals
    /\ UNCHANGED <<hub_closes, info>>
    /\ UNCHANGED erest
    /\ UNCHANGED <<dvars, svars, lvars>>

\* Lines 721-723: the hub's instance identifier.
IoInstanceId ==
    /\ pc = "iocontrol" /\ io_pc = "instance_id"
    /\ \/ IoReturnFalse
       \/ /\ IoGoto("open")
          /\ UNCHANGED iolocals
    /\ UNCHANGED <<hub_closes, info>>
    /\ UNCHANGED erest
    /\ UNCHANGED <<dvars, svars, lvars>>

\* Lines 727-738: CreateFileW returns INVALID_HANDLE_VALUE or a new handle.
IoOpenHub ==
    /\ pc = "iocontrol" /\ io_pc = "open"
    /\ \/ /\ IoReturnFalse
          /\ UNCHANGED hub_closes
       \/ /\ h_hub_device' = Some(Len(hub_closes) + 1)
          /\ hub_closes' = Append(hub_closes, 0)
          /\ IoGoto("connection_info")
          /\ UNCHANGED <<io_walk, child_instance_number, parent_instance_number,
                         connection_info, device_description, bConfigurationValue,
                         bInterfaceNumber, io_requests>>
    /\ UNCHANGED info
    /\ UNCHANGED erest
    /\ UNCHANGED <<dvars, svars, lvars>>

\* Lines 741-750: request_usb_connection_info.
IoConnectionInfo ==
    /\ pc = "iocontrol" /\ io_pc = "connection_info"
    /\ \/ /\ connection_info' = None
          /\ UNCHANGED device_description
          /\ IoGoto("device_description")
       \/ /\ connection_info' = Some([CurrentConfigurationValue |-> 1,
                                      DeviceDescriptor |-> [bNumConfigurations |-> 1]])
          /\ device_description' = Some(Val(connection_info').DeviceDescriptor)
          /\ IoGoto("strings")
    /\ UNCHANGED <<io_walk, child_instance_number, parent_instance_number, h_hub_device,
                   hub_closes, bConfigurationValue, bInterfaceNumber, io_requests, info>>
    /\ UNCHANGED erest
    /\ UNCHANGED <<dvars, svars, lvars>>

\* Lines 743-748: the fallback request_usb_device_description; when it fails
\* too the handle is closed and the result is False.
IoDeviceDescription ==
    /\ pc = "iocontrol" /\ io_pc = "device_description"
    /\ \/ /\ hub_closes' = CloseOnDescriptorFailure(hub_closes, Val(h_hub_device))
          /\ IoReturnFalse
       \/ /\ \E n \in {1, 2} : device_description' = Some([bNumConfigurations |-> n])
          /\ UNCHANGED hub_closes
          /\ IoGoto("strings")
          /\ UNCHANGED <<io_walk, child_instance_number, parent_instance_number,
                         h_hub_device, connection_info, bConfigurationValue,
                         bInterfaceNumber, io_requests>>
    /\ UNCHANGED info
    /\ UNCHANGED erest
    /\ UNCHANGED <<dvars, svars, lvars>>

\* Lines 753-768: vid and pid from the device descriptor, the results of the
\* three request_usb_string_description calls (a string or None), then
\* bConfigurationValue.
IoStrings ==
    /\ pc = "iocontrol" /\ io_pc = "strings"
    /\ info' = [info EXCEPT !.pid = "idProduct", !.vid = "idVendor", !.product = "iProduct",
                             !.manufacturer = "iManufacturer",
                             !.serial_number = "iSerialNumber"]
    /\ bConfigurationValue' =
          IF connection_info # None THEN Some(Val(connection_info).CurrentConfigurationValue)
          ELSE IF Val(device_description).bNumConfigurations = 1 THEN Some(1)
          ELSE None
    /\ IoGoto("interface_number")
    /\ UNCHANGED <<io_walk, child_instance_number, parent_instance_number, h_hub_device,
                   hub_closes, connection_info, device_description, bInterfaceNumber, io_requests>>
    /\ UNCHANGED erest
    /\ UNCHANGED <<dvars, svars, lvars>>

KeepForInterfaceNumber ==
    UNCHANGED <<io_walk, child_instance_number, parent_instance_number, h_hub_device,
                connection_info, device_description, bConfigurationValue>>

\* Lines 771-783: bInterfaceNumber from the location paths of the port's
\* devnode, or from the hardware ID when the property is absent.
IoInterfaceNumber ==
    /\ pc = "iocontrol" /\ io_pc = "interface_number"
    /\ \E r \in PropertyOutcomes :
          CASE r = "unsupported" -> IoRaise("NotImplementedError")
            [] r = "value" ->
                 /\ \E paths \in LocationPathsValues : bInterfaceNumber' = FirstUsbMi(paths)
                 /\ IoGoto("interface")
                 /\ KeepForInterfaceNumber
                 /\ UNCHANGED io_requests
            [] r = "absent" ->
                 LET parsed == parse_interface_number_from_hardware_id(szHardwareID_str) IN
                 IF parsed.kind = "ValueError"
                 THEN IoRaise("ValueError")
                 ELSE /\ bInterfaceNumber' = parsed.value
                      /\ IoGoto("interface")
                      /\ KeepForInterfaceNumber
                      /\ UNCHANGED io_requests
    /\ UNCHANGED <<hub_closes, info>>
    /\ UNCHANGED erest
    /\ UNCHANGED <<dvars, svars, lvars>>

\* request_usb_configuration_description(h_hub_device, usb_hub_port, i)
\* (line 792) and its result: None, or Some(bNumInterfaces) of the
\* configuration descriptor returned.
ConfigurationRequested(i, result) ==
    [request |-> "configuration_description", arg |-> i, result |-> result]

\* request_usb_interface_descriptions(h_hub_device, usb_hub_port,
\* configuration_description, n) (line 662).
DescriptorsRequested(n) ==
    [request |-> "interface_descriptions", arg |-> n, result |-> None]

\* Values of configuration_description (line 792) by bNumInterfaces.
ConfigurationDescriptions == {None, Some(1), Some(2)}

\* Variant of SingleInterfaceNumber that keeps the parsed number.
KeepParsedNumber(n) == n
\* Line 799: bInterfaceNumber = None for a device with a single interface.
SingleInterfaceNumber(n) == None

\* Lines 658-660: the interface looked for is 0 when bInterfaceNumber is None.
RequestedInterface(n) == IF n = None THEN 0 ELSE Val(n)

\* info.interface = get_device_property(..., DEVPKEY_Device_BusReportedDeviceDesc)
\* (lines 795, 806, 811)
InterfaceFromBusReported(requests) ==
    \E r \in PropertyOutcomes :
       CASE r = "unsupported" -> /\ IoRaise("NotImplementedError")
                                 /\ UNCHANGED info
         [] OTHER -> /\ info' = [info EXCEPT !.interface = "BusReportedDeviceDesc"]
                     /\ io_requests' = requests
                     /\ IoGoto("name")
                     /\ KeepForInterfaceNumber
                     /\ UNCHANGED bInterfaceNumber

\* info.interface = get_interface_string_from_interface_descriptions(..., n)
\* (lines 800, 803, 657-673): the interface's string or None.
InterfaceFromDescriptor(requests, n) ==
    /\ bInterfaceNumber' = n
    /\ io_requests' = Append(requests, DescriptorsRequested(RequestedInterface(n)))
    /\ info' = [info EXCEPT !.interface = "iInterface"]
    /\ IoGoto("name")
    /\ KeepForInterfaceNumber

\* Lines 786-811: the interface text.
IoInterface ==
    /\ pc = "iocontrol" /\ io_pc = "interface"
    /\ IF bConfigurationValue # None
       THEN \E configuration_description \in ConfigurationDescriptions :
               LET requests ==
                      Append(io_requests,
                             ConfigurationRequested(Val(bConfigurationValue) - 1,
                                                    configuration_description))
               IN  IF configuration_description = None
                   THEN InterfaceFromBusReported(requests)
                   ELSE IF Val(configuration_description) = 1
                   THEN InterfaceFromDescriptor(requests,
                                                SingleInterfaceNumber(bInterfaceNumber))
                   ELSE IF bInterfaceNumber # None
                   THEN InterfaceFromDescriptor(requests, bInterfaceNumber)
                   ELSE InterfaceFromBusReported(requests)
       ELSE InterfaceFromBusReported(io_requests)
    /\ UNCHANGED hub_closes
    /\ UNCHANGED erest
    /\ UNCHANGED <<dvars, svars, lvars>>

\* Line 814: info.name = get_device_property(..., DEVPKEY_Device_FriendlyName)
IoFriendlyName ==
    /\ pc = "iocontrol" /\ io_pc = "name"
    /\ \E r \in PropertyOutcomes :
          CASE r = "unsupported" -> /\ IoRaise("NotImplementedError")
                                    /\ UNCHANGED info
            [] OTHER -> /\ info' = [info EXCEPT !.name = "FriendlyName"]
                        /\ IoGoto("location")
                        /\ UNCHANGED iolocals
    /\ UNCHANGED hub_closes
    /\ UNCHANGED erest
    /\ UNCHANGED <<dvars, svars, lvars>>

\* Lines 817-826: the location string (get_location_string reads the
\* location paths of the USB device), apply_usb_info, CloseHandle, return True.
IoLocation ==
    /\ pc = "iocontrol" /\ io_pc = "location"
    /\ \E r \in PropertyOutcomes :
          CASE r = "unsupported" -> /\ IoRaise("NotImplementedError")
                                    /\ UNCHANGED <<info, hub_closes>>
            [] OTHER ->
                 /\ info' = [info EXCEPT !.location = "get_location_string",
                                         !.description = "usb_description",
                                         !.hwid = "usb_info"]
                 /\ hub_closes' = CloseOnSuccess(hub_closes, Val(h_hub_device))
                 /\ IoReturnTrue
    /\ UNCHANGED erest
    /\ UNCHANGED <<dvars, svars, lvars>>

---------------------------------------------------------------------------
(* get_usb_info_from_device_property (lines 829-899), the yield and the    *)
(* consumer of the generator                                               *)

\* Lines 832-862: the fields derived from the hardware ID.  serial is the
\* result of get_parent_serial_number when it is called (line 847),
\* location the result of get_location_string (line 850).
InfoFromHardwareId(i, id, serial, location) ==
    IF id.bus = "USB"
    THEN LET m == SearchVidPid(id) IN
         IF m = None
         THEN [i EXCEPT !.location = location, !.hwid = "usb_info"]
         ELSE [i EXCEPT !.vid = "hardware_id",
                        !.pid = IF Truthy(Val(m).g3) THEN "hardware_id" ELSE @,
                        !.serial_number = IF Truthy(Val(m).g7) /\ IsWordText(Val(Val(m).g7))
                                          THEN "hardware_id" ELSE serial,
                        !.location = location,
                        !.hwid = "usb_info"]
    ELSE IF id.bus = "FTDIBUS"
    THEN IF id.vid # None /\ id.pid # None /\ id.sep = "+"
         THEN [i EXCEPT !.vid = "hardware_id", !.pid = "hardware_id",
                        !.serial_number = IF id.ser # None /\ IsWordText(Val(id.ser))
                                          THEN "hardware_id" ELSE @,
                        !.hwid = "usb_info"]
         ELSE [i EXCEPT !.hwid = "usb_info"]
    ELSE [i EXCEPT !.hwid = "szHardwareID_str"]

\* Line 844-847: get_parent_serial_number is called for a USB ID with a VID
\* whose group 7 is absent or not a word.
AsksParentSerial(id) ==
    /\ id.bus = "USB"
    /\ SearchVidPid(id) # None
    /\ ~(Truthy(Val(SearchVidPid(id)).g7) /\ IsWordText(Val(Val(SearchVidPid(id)).g7)))

FallbackRaise(type) ==
    /\ pc' = "raised"
    /\ error' = Exception(type, "get_usb_info_from_device_property")
    /\ UNCHANGED info

\* Lines 829-899, called at lines 1005 and 1008.
GetUsbInfoFromDeviceProperty ==
    /\ calls' = Append(calls, FallbackCalled(port_name_buffer))
    /\ pc = "fallback"
    /\ \/ /\ AsksParentSerial(szHardwareID_str)       \* get_parent_serial_number raises
          /\ FallbackRaise("WinError")
       \/ /\ szHardwareID_str.bus = "USB"             \* get_location_string raises
          /\ FallbackRaise("NotImplementedError")
       \/ \E mfg, desc, iface \in BOOLEAN :
             /\ info' = [InfoFromHardwareId(info, szHardwareID_str,
                                            "get_parent_serial_number", "get_location_string")
                           EXCEPT !.manufacturer = IF mfg THEN "SPDRP_MFG" ELSE @,
                                  !.description = IF desc THEN "SPDRP_FRIENDLYNAME" ELSE @,
                                  !.interface = IF iface THEN "BusReportedDeviceDesc" ELSE @]
             /\ pc' = "at_yield"
             /\ UNCHANGED error
    /\ UNCHANGED erest
    /\ UNCHANGED <<iovars, dvars, svars, lvars>>

\* Line 1010: yield info.  The consumer receives the PortInfo and the
\* generator is suspended.
YieldInfo ==
    /\ UNCHANGED calls
    /\ pc = "at_yield"
    /\ delivered' = Append(delivered, info.device)
    /\ pc' = "suspended"
    /\ UNCHANGED <<enable_iocontrol, consumer, GUIDs, hub_instance_numbers, guid_iter, index,
                   g_hdi, hdi_open, hdi_count, hkey_open, port_name_buffer, szHardwareID_str, info,
                   comports_result, error, enumerated>>
    /\ UNCHANGED <<iovars, dvars, svars, lvars>>

\* The consumer asks for the next element: the generator resumes after the
\* yield, at the while condition of line 939.
ConsumerNext ==
    /\ UNCHANGED calls
    /\ pc = "suspended"
    /\ pc' = "enum"
    /\ UNCHANGED <<error, info>>
    /\ UNCHANGED erest
    /\ UNCHANGED <<iovars, dvars, svars, lvars>>

\* A consumer of the generator itself drops it (close(), or the last
\* reference goes away): GeneratorExit is raised at the yield and the
\* generator ends there.  list() in comports never does this.
ConsumerAbandon ==
    /\ UNCHANGED calls
    /\ pc = "suspended"
    /\ consumer = "lazy"
    /\ pc' = "closed"
    /\ UNCHANGED <<error, info>>
    /\ UNCHANGED erest
    /\ UNCHANGED <<iovars, dvars, svars, lvars>>

\* Line 1016: comports returns the list built from the generator.
ComportsReturn ==
    /\ UNCHANGED calls
    /\ consumer = "comports"
    /\ ListCompletes(pc)
    /\ comports_result = None
    /\ comports_result' = Some(delivered)
    /\ UNCHANGED <<pc, enable_iocontrol, consumer, GUIDs, hub_instance_numbers, guid_iter,
                   index, g_hdi, hdi_open, hdi_count, hkey_open, port_name_buffer, szHardwareID_str,
                   info, delivered, error, enumerated>>
    /\ UNCHANGED <<iovars, dvars, svars, lvars>>

---------------------------------------------------------------------------
(* get_location_string (lines 579-602).                                    *)

\* Number of #USB hops of the location paths tried.
MaxHops == 2

\* '{:d}'.format(n) / '{}'.format(n) of a natural number
RECURSIVE FormatInt(_)
FormatInt(n) == IF n < 10 THEN <<Digits[n + 1]>> ELSE FormatInt(n \div 10) \o <<Digits[(n % 10) + 1]>>

\* int(text) raises ValueError unless the text is made of decimal digits
IsDecimalText(text) == text # <<>> /\ AllIn(text, DecimalChars)

\* Texts the pattern \w+ can capture inside USBROOT( ) and #USB( ).
RootTexts == {<<"0">>, <<"1">>, <<"9">>, <<"A">>}
PortTexts == {<<"1">>, <<"3">>, <<"1", "2">>}

\* Values of the location-paths property read by get_location_string:
\* absent, of a type get_device_property does not handle, or a string list.
LocPathValues ==
    {[kind |-> "absent", value |-> <<>>], [kind |-> "unsupported", value |-> <<>>],
     [kind |-> "value", value |-> <<>>]}
    \cup {[kind |-> "value", value |-> <<[root |-> r, ports |-> ps, usbmi |-> None]>>] :
             r \in RootTexts, ps \in SeqsUpTo(PortTexts, MaxHops)}
    \cup {[kind |-> "value", value |-> <<Path_Plain, Path_Mi>>],
          [kind |-> "value", value |-> <<Path_Mi, Path_Plain>>]}

\* Variant of Separator that always gives '-'.
SeparatorAlwaysDash(len) == <<"-">>
\* Lines 591-594: '.' when the list location already has more than one
\* element, '-' otherwise.
Separator(len) == IF len > 1 THEN <<".">> ELSE <<"-">>

RECURSIVE HopsText(_, _)
\* Lines 587-595 for the #USB( ) matches that follow the root: len is
\* len(location) when the match is handled.
HopsText(ports, len) ==
    IF ports = <<>> THEN <<>>
    ELSE Separator(len) \o Head(ports) \o HopsText(Tail(ports), len + 2)

\* Lines 580-581 and 596-599: the text appended for an interface number.
InterfaceSuffix(conf, ifn) ==
    IF ifn = None THEN <<>>
    ELSE <<":">> \o (IF conf = None THEN <<"x">> ELSE FormatInt(Val(conf)))
         \o <<".">> \o FormatInt(Val(ifn))

\* Lines 585-601: the joined text for the first path, whose USBROOT( )
\* match comes first and is followed by its #USB( ) matches; a trailing
\* #USBMI( ) segment is matched by neither alternative.
LocationOfPath(path, conf, ifn) ==
    FormatInt(IntOfText(path.root, 10) + 1) \o HopsText(path.ports, 1)
       \o InterfaceSuffix(conf, ifn)

IdleLoc ==
    /\ l_pc = "idle" /\ loc_path_str = [kind |-> "absent", value |-> <<>>]
    /\ l_bConfigurationValue = None /\ l_bInterfaceNumber = None
    /\ l_result = None /\ l_error = "none"

\* get_location_string(instance_number, bConfigurationValue, bInterfaceNumber)
InitLoc ==
    /\ l_pc = "call"
    /\ loc_path_str \in LocPathValues
    /\ l_bConfigurationValue \in {None, Some(1), Some(2)}
    /\ l_bInterfaceNumber \in {None, Some(0), Some(1)}
    /\ l_result = None
    /\ l_error = "none"

LocFrame ==
    /\ UNCHANGED <<loc_path_str, l_bConfigurationValue, l_bInterfaceNumber, io_requests>>
    /\ UNCHANGED <<evars, iovars, dvars, svars>>

\* Lines 583, 635: get_device_property raises NotImplementedError.
LocationUnsupported ==
    /\ l_pc = "call"
    /\ loc_path_str.kind = "unsupported"
    /\ l_pc' = "raised" /\ l_error' = "NotImplementedError"
    /\ UNCHANGED l_result
    /\ LocFrame

\* Lines 583-584, 602: the property is absent (None) or an empty list.
LocationNone ==
    /\ l_pc = "call"
    /\ loc_path_str.kind = "absent" \/ (loc_path_str.kind = "value" /\ loc_path_str.value = <<>>)
    /\ l_pc' = "done" /\ l_result' = None
    /\ UNCHANGED l_error
    /\ LocFrame

\* Line 589: int() of the USBROOT( ) text raises ValueError.
LocationValueError ==
    /\ l_pc = "call"
    /\ loc_path_str.kind = "value" /\ loc_path_str.value # <<>>
    /\ ~IsDecimalText(loc_path_str.value[1].root)
    /\ l_pc' = "raised" /\ l_error' = "ValueError"
    /\ UNCHANGED l_result
    /\ LocFrame

\* Lines 584-601: the location text of the first path.
LocationBuilt ==
    /\ l_pc = "call"
    /\ loc_path_str.kind = "value" /\ loc_path_str.value # <<>>
    /\ IsDecimalText(loc_path_str.value[1].root)
    /\ l_pc' = "done"
    /\ l_result' = Some(LocationOfPath(loc_path_str.value[1], l_bConfigurationValue,
                                       l_bInterfaceNumber))
    /\ UNCHANGED l_error
    /\ LocFrame

NextLoc ==
    \/ LocationUnsupported
    \/ LocationNone
    \/ LocationValueError
    \/ LocationBuilt

Init == InitEnum /\ IdleDesc /\ IdleSerial /\ IdleLoc

DescInit == IdleEnum /\ InitDesc /\ IdleSerial /\ IdleLoc

SerialInit == IdleEnum /\ IdleDesc /\ InitSerial /\ IdleLoc

LocInit == IdleEnum /\ IdleDesc /\ IdleSerial /\ InitLoc

Next ==
    \/ ResolvePortsGuids
    \/ ResolveModemGuids
    \/ GetAllHubInstanceNumber
    \/ SkipHubs
    \/ NextGuid
    \/ GuidsExhausted
    \/ EnumExhausted
    \/ EnumSkipParallel
    \/ EnumHardwareIdError
    \/ EnumDevice
    \/ IoParentLookup
    \/ IoWalkExhausted
    \/ IoAddress
    \/ IoInstanceId
    \/ IoOpenHub
    \/ IoConnectionInfo
    \/ IoDeviceDescription
    \/ IoStrings
    \/ IoInterfaceNumber
    \/ IoInterface
    \/ IoFriendlyName
    \/ IoLocation
    \/ GetUsbInfoFromDeviceProperty
    \/ YieldInfo
    \/ ConsumerNext
    \/ ConsumerAbandon
    \/ ComportsReturn

Spec == Init /\ [][Next]_vars

SpecDesc == DescInit /\ [][NextDesc]_vars

SpecSerial == SerialInit /\ [][NextSerial]_vars

SpecLoc == LocInit /\ [][NextLoc]_vars

---------------------------------------------------------------------------
\* Properties of get_usb_info_from_iocontrol and iterate_comports (Spec)

\* Every hub handle CreateFileW has returned so far and the calls of
\* get_usb_info_from_iocontrol that are over.
HubHandles == 1..Len(hub_closes)
IoCallLeft == io_pc = "idle" /\ io_result \in {"True", "False", "raised"}
IoCallReturned == io_pc = "idle" /\ io_result \in {"True", "False"}

\* C1: whenever a call of get_usb_info_from_iocontrol has been left, by a
\* return or by an exception, every hub handle opened has been closed.
HubHandleClosedOnEveryExit ==
    IoCallLeft => \A h \in HubHandles : hub_closes[h] >= 1

\* C2: whenever a call of get_usb_info_from_iocontrol has returned True or
\* False, CloseHandle has been called exactly once on every hub handle
\* opened, and at no time has a handle been closed twice.
HubHandleClosedOnceOnReturn ==
    /\ \A h \in HubHandles : hub_closes[h] <= 1
    /\ IoCallReturned => \A h \in HubHandles : hub_closes[h] = 1

\* The first device's call opened a hub, both descriptor requests failed,
\* and the call returned False with the handle closed once.
HubClosedOnDescriptorFailure ==
    /\ io_pc = "idle" /\ io_result = "False"
    /\ enumerated = 1
    /\ hub_closes = <<1>>

\* C3: when the enumeration has ended (exhaustion, an error, or the consumer
\* dropping the generator), no device-information set is still open.
DeviceInfoSetDestroyedOnEveryEnding ==
    pc \in {"done", "raised", "closed"} => hdi_open = {}

\* C4: iterate_comports never ends with an error raised inside
\* get_usb_info_from_iocontrol.
IocontrolFailureIsFalseResult ==
    pc = "raised" => Val(error).origin # "get_usb_info_from_iocontrol"

\* C5 as stated: a run of iterate_comports that ended with an error has
\* delivered no PortInfo.
NoPortInfoBeforeFatalError ==
    pc = "raised" => delivered = <<>>

\* C5: a run of comports that meets an error returns no list, and a run of
\* iterate_comports that ends with a class-GUID resolution failure has
\* delivered no PortInfo.
NoListFromFailedComports ==
    /\ (pc = "raised" /\ consumer = "comports") => comports_result = None
    /\ (pc = "raised" /\ Val(error).origin = "SetupDiClassGuidsFromName") => delivered = <<>>

\* comports met an error at a later device after list() had already taken
\* an element from the generator.
ComportsFailedAfterElement ==
    /\ pc = "raised" /\ consumer = "comports"
    /\ Val(error).origin # "SetupDiClassGuidsFromName"
    /\ Len(delivered) >= 1
    /\ comports_result = None

---------------------------------------------------------------------------
\* Properties of request_usb_interface_descriptions (SpecDesc)

\* C6: a step of the walk that reads a header whose bLength is 0, or whose
\* bLength runs past wTotalLength, ends the walk there and returns the
\* interface descriptors collected so far.
WalkStopsAtMalformedHeader ==
    [][(/\ d_pc = "walk"
        /\ HeaderFits(common_description_offset, wTotalLength)
        /\ \/ HeaderLength(common_description_offset) = 0
           \/ common_description_offset + HeaderLength(common_description_offset) > wTotalLength)
       => (d_pc' = "done" /\ d_return' = Some(result_descriptions))]_vars

\* C7: every offset of the configuration block that has been read is below
\* wTotalLength.
ReadsBelowTotalLength ==
    d_reads \subseteq 0..(wTotalLength - 1)

\* The walk ended after copying an interface descriptor whose last byte is
\* the last byte of the block.
InterfaceReadUpToBlockEnd ==
    /\ d_pc = "done"
    /\ Len(result_descriptions) >= 1
    /\ (wTotalLength - 1) \in d_reads

---------------------------------------------------------------------------
\* Properties of get_parent_serial_number (SpecSerial)

AlnumChars == WordChars \ {"_"}
IsAlnumText(text) == text # <<>> /\ \A i \in 1..Len(text) : text[i] \in AlnumChars

\* The ancestor's ID yields the child's VID and PID (line 360).
CarriesChildIds(id) ==
    /\ SearchVidPid(id) # None
    /\ HexGroup(Val(SearchVidPid(id)).g1) # None
    /\ HexGroup(Val(SearchVidPid(id)).g3) # None
    /\ HexGroup(Val(SearchVidPid(id)).g1) = child_vid
    /\ HexGroup(Val(SearchVidPid(id)).g3) = child_pid

\* The ancestor's ID has a VID_ token but yields no VID or no PID: the group
\* is absent or its value is 0.
LacksIds(id) ==
    /\ SearchVidPid(id) # None
    /\ \/ HexGroup(Val(SearchVidPid(id)).g1) \in {None, Some(0)}
       \/ HexGroup(Val(SearchVidPid(id)).g3) \in {None, Some(0)}

\* The text after the backslash of the ancestor's ID (group 7), '' when the
\* ID has none.
RawToken(id) ==
    IF SearchVidPid(id) # None /\ Truthy(Val(SearchVidPid(id)).g7)
    THEN Val(Val(SearchVidPid(id)).g7)
    ELSE <<>>

ChildIdsNonzero ==
    /\ child_vid # None /\ child_pid # None
    /\ Val(child_vid) # 0 /\ Val(child_pid) # 0

\* C8: get_parent_serial_number is never left by an exception.
ParentSerialNeverRaises ==
    s_pc # "raised"

ParsesToDifferingIds(id) ==
    /\ SearchVidPid(id) # None
    /\ Truthy(Val(SearchVidPid(id)).g1)
    /\ Truthy(Val(SearchVidPid(id)).g3)
    /\ \/ HexGroup(Val(SearchVidPid(id)).g1) # child_vid
       \/ HexGroup(Val(SearchVidPid(id)).g3) # child_pid

\* C11: once the immediate parent's ID has been inspected and it parses to
\* a VID and a PID of which one differs from the child's, the call does not
\* raise, and when it has returned the result is the empty string.
DifferingParentGivesEmpty ==
    (s_inspected >= 1 /\ ParsesToDifferingIds(s_tree[1]))
    => /\ s_pc # "raised"
       /\ s_pc = "done" => s_result = <<>>

---------------------------------------------------------------------------
\* Properties of iterate_comports with no device (Spec)

RunEnded == pc \in {"done", "raised", "closed"}

---------------------------------------------------------------------------
\* Properties of the enumeration loop of iterate_comports (Spec)

Logged(entry) == \E i \in 1..Len(calls) : calls[i] = entry
TimesLogged(entry) == Cardinality({i \in 1..Len(calls) : calls[i] = entry})

\* PortNames of the reported devices that are not parallel ports, in the
\* order SetupDiEnumDeviceInfo reported them.
SerialDevices ==
    LET reported == SelectSeq(calls, LAMBDA c : /\ c.op = "SetupDiEnumDeviceInfo"
                                                /\ ~StartsWith(c.device, <<"L", "P", "T">>))
    IN [i \in 1..Len(reported) |-> reported[i].device]

\* The device reported last is still being processed (lines 967-1010).
DeviceInProgress == pc \in {"iocontrol", "fallback", "at_yield"}

\* C13: as long as no error has ended the run, the PortInfos delivered are
\* those of the reported devices whose name does not start with LPT, one
\* each and in the order reported (the one in progress not yet), and for
\* every device delivered or about to be, the fallback has been called
\* exactly once if enable_iocontrol is false or get_usb_info_from_iocontrol
\* returned False for it, and not at all otherwise.
OnePortInfoPerSerialDevice ==
    pc # "raised" =>
       /\ delivered = IF DeviceInProgress
                      THEN SubSeq(SerialDevices, 1, Len(SerialDevices) - 1)
                      ELSE SerialDevices
       /\ \A i \in 1..Len(SerialDevices) :
             (i <= Len(delivered) \/ pc = "at_yield")
             => TimesLogged(FallbackCalled(SerialDevices[i])) =
                   IF ~enable_iocontrol \/ Logged(IoReturned(SerialDevices[i], "False"))
                   THEN 1 ELSE 0

\* A finished run over a parallel port and a serial port for which
\* get_usb_info_from_iocontrol returned False: one PortInfo, after the fallback.
SkippedParallelAndFellBack ==
    /\ pc = "done" /\ enable_iocontrol
    /\ Logged(Reported(LptName))
    /\ Len(delivered) = 1
    /\ Logged(IoReturned(delivered[1], "False"))
    /\ Logged(FallbackCalled(delivered[1]))

---------------------------------------------------------------------------
\* Properties of get_location_string (SpecLoc)

\* The text expected for a path: root index plus one, '-' and the first
\* port, '.' and each further port.
ExpectedTopology(path) ==
    FormatInt(IntOfText(path.root, 10) + 1)
       \o Flatten([i \in 1..Len(path.ports) |->
                     (IF i = 1 THEN <<"-">> ELSE <<".">>) \o path.ports[i]])

\* ':<config>.<interface>' when an interface number is given, with 'x' for
\* an unknown configuration value; nothing otherwise.
ExpectedSuffix ==
    IF l_bInterfaceNumber = None THEN <<>>
    ELSE <<":">> \o (IF l_bConfigurationValue = None THEN <<"x">>
                     ELSE FormatInt(Val(l_bConfigurationValue)))
         \o <<".">> \o FormatInt(Val(l_bInterfaceNumber))

\* C14: a call of get_location_string that has returned gave None when the
\* location-paths property is absent, and for a first path USBROOT(r)
\* followed by #USB hops gave the text r+1, '-' p1, '.' pi, followed by
\* ':<config>.<interface>' exactly when an interface number was given;
\* USBROOT(0)#USB(3)#USB(1) gives '1-3.1', and '1-3.1:x.0' with interface 0
\* and no configuration value.
LocationStringFormat ==
    l_pc = "done" =>
       /\ loc_path_str.kind = "absent" => l_result = None
       /\ (loc_path_str.kind = "value" /\ loc_path_str.value # <<>>)
          => l_result = Some(ExpectedTopology(loc_path_str.value[1]) \o ExpectedSuffix)
       /\ (loc_path_str.kind = "value" /\ loc_path_str.value # <<>>
             /\ loc_path_str.value[1] = Path_Plain)
          => l_result =
                IF l_bInterfaceNumber = None THEN Some(<<"1", "-", "3", ".", "1">>)
                ELSE IF l_bInterfaceNumber = Some(0) /\ l_bConfigurationValue = None
                THEN Some(<<"1", "-", "3", ".", "1", ":", "x", ".", "0">>)
                ELSE l_result

\* USBROOT(0)#USB(3)#USB(1) with interface 0 and no configuration value
\* gave '1-3.1:x.0'.
LocationWithUnknownConfiguration ==
    /\ l_pc = "done"
    /\ loc_path_str.kind = "value" /\ loc_path_str.value # <<>>
    /\ loc_path_str.value[1] = Path_Plain
    /\ l_bInterfaceNumber = Some(0) /\ l_bConfigurationValue = None
    /\ l_result = Some(<<"1", "-", "3", ".", "1", ":", "x", ".", "0">>)

---------------------------------------------------------------------------
\* Further properties of get_parent_serial_number (SpecSerial)

\* C15: a call of get_parent_serial_number makes at most
\* MAX_USB_DEVICE_TREE_TRAVERSAL_DEPTH calls of CM_Get_Parent and inspects
\* no ancestor more than that many levels above the leaf.
ParentLookupsWithinDepthBound ==
    /\ s_lookups <= MAX_USB_DEVICE_TREE_TRAVERSAL_DEPTH
    /\ s_inspected <= MAX_USB_DEVICE_TREE_TRAVERSAL_DEPTH

---------------------------------------------------------------------------
\* Properties of hub discovery in get_usb_info_from_iocontrol (Spec)

\* Instance numbers of the hubs found by get_all_hub_instance_number.
HubNumbers == {hub_instance_numbers[i] : i \in 1..Len(hub_instance_numbers)}

\* The instance number of the ancestor a levels above the port's node.
Ancestor(a) == PortDevInst + a

\* While the loop runs: io_walk parent lookups have succeeded, none of the
\* ancestors seen is a hub, and no handle is open.
DiscoveryInProgress ==
    io_pc = "walk" =>
       /\ io_walk <= 5
       /\ child_instance_number = Ancestor(io_walk)
       /\ \A a \in 1..io_walk : Ancestor(a) \notin HubNumbers
       /\ h_hub_device = None

\* After the loop: the hub is the nearest ancestor that is a hub, it is one
\* of the first 5, and the USB device is the node directly below it.
DiscoveryFoundNearestHub ==
    io_pc \notin {"idle", "walk"} =>
       \E a \in 1..5 :
          /\ parent_instance_number = Some(Ancestor(a))
          /\ Ancestor(a) \in HubNumbers
          /\ \A b \in 1..(a - 1) : Ancestor(b) \notin HubNumbers
          /\ child_instance_number = Ancestor(a - 1)

\* C16: hub discovery makes at most 5 parent lookups; the call goes on past
\* it only with the nearest hub among the first 5 ancestors as the hub and
\* the node below it as the USB device; a call that ends in the loop
\* returns False and has opened no handle.
HubDiscoveryBounded ==
    /\ [](DiscoveryInProgress /\ DiscoveryFoundNearestHub)
    /\ [][(io_pc = "walk" /\ io_pc' = "idle")
          => (io_result' = "False" /\ pc' = "fallback" /\ hub_closes' = hub_closes)]_vars

\* The fifth ancestor is the hub: it was found by the fifth lookup and the
\* call went on with the fourth ancestor as the USB device.
FoundHubAtFifthAncestor ==
    /\ io_pc = "address"
    /\ hub_instance_numbers = <<5>>
    /\ parent_instance_number = Some(Ancestor(5))
    /\ child_instance_number = Ancestor(4)
    /\ io_walk = 4

---------------------------------------------------------------------------
\* The serial remembered along the ascent (SpecSerial)

\* The call returned because CM_Get_Parent reported no parent (line 313):
\* the last lookup inspected no ancestor.
EndedAtRoot == s_pc = "done" /\ s_lookups = s_inspected + 1

\* The inspected ancestors that have a serial token.
WithToken == {k \in 1..s_inspected : RawToken(s_tree[k]) # <<>>}

\* C17: when the ascent ended because no parent is reachable, the result is
\* the serial token of the inspected ancestor nearest to the end of the
\* ascent that has one, whatever ancestors without a token came after it,
\* and the empty string only if no inspected ancestor has a token.
RootReturnsBestSerialSeen ==
    EndedAtRoot =>
       s_result = IF WithToken = {} THEN <<>>
                  ELSE RawToken(s_tree[CHOOSE k \in WithToken : \A j \in WithToken : j <= k])

---------------------------------------------------------------------------
\* The interface number and the interface text (Spec)

\* The number of the MI_nn token of a USB hardware ID, None without one.
MiToken(id) ==
    IF id.bus = "USB" /\ id.mi # None THEN Some(IntOfText(Val(id.mi), 10)) ELSE None

\* C18: when the step that determines the interface number completes, the
\* number is undetermined only if the hardware ID has no MI_nn token
\* either: with the token present, the number comes from a #USBMI segment
\* or, failing that, from the token.
InterfaceNumberFromEitherSource ==
    [][(/\ io_pc = "interface_number" /\ io_pc' = "interface"
        /\ MiToken(szHardwareID_str) # None)
       => bInterfaceNumber' # None]_vars

\* The requests the step being taken adds to io_requests.
NewRequests == SubSeq(io_requests', Len(io_requests) + 1, Len(io_requests'))

\* C19: when the step that sets the interface text completes, the text is
\* the bus-reported description, with no interface-descriptor request sent,
\* if the configuration value is unknown, the configuration-descriptor
\* request failed, or the configuration has several interfaces and the
\* interface number is unknown; it is the string of interface 0 if the
\* configuration has one interface, whatever number was parsed; and the
\* string of the parsed interface if it has several and the number is known.
InterfaceTextSource ==
    [][(io_pc = "interface" /\ io_pc' = "name") =>
       IF bConfigurationValue = None
       THEN info'.interface = "BusReportedDeviceDesc" /\ NewRequests = <<>>
       ELSE /\ Len(NewRequests) >= 1
            /\ NewRequests[1].request = "configuration_description"
            /\ LET c == NewRequests[1].result IN
               IF c = None \/ (Val(c) > 1 /\ bInterfaceNumber = None)
               THEN info'.interface = "BusReportedDeviceDesc" /\ Len(NewRequests) = 1
               ELSE /\ info'.interface = "iInterface"
                    /\ Len(NewRequests) = 2
                    /\ NewRequests[2] =
                          DescriptorsRequested(IF Val(c) = 1 THEN 0
                                               ELSE Val(bInterfaceNumber))]_vars

\* The text of a single-interface device has been read from interface 0.
SingleInterfaceTextRead ==
    /\ io_pc = "name"
    /\ info.interface = "iInterface"
    /\ Len(io_requests) = 2
    /\ io_requests[1].result = Some(1)
    /\ io_requests[2] = DescriptorsRequested(0)

---------------------------------------------------------------------------
\* The PortInfo the fallback receives (Spec)

\* C20: whenever get_usb_info_from_device_property is about to run, after a
\* False result of get_usb_info_from_iocontrol or with enable_iocontrol
\* off, info is the record the constructor made from the port name: no
\* False return comes after a write to info.
FallbackStartsFromFreshPortInfo ==
    pc = "fallback" => info = NewPortInfo(port_name_buffer)

\* get_usb_info_from_iocontrol has returned False after opening and closing
\* a hub handle, and the fallback is about to run.
ReturnedFalseAfterHubWasOpened ==
    /\ pc = "fallback" /\ io_result = "False"
    /\ calls # <<>> /\ calls[Len(calls)] = IoReturned(port_name_buffer, "False")
    /\ enumerated = 1 /\ hub_closes = <<1>>

---------------------------------------------------------------------------
\* The two loops of iterate_comports that share the name index (Spec)

\* Texts of the GUIDs SetupDiGetClassDevs has been called with, in order.
ClassesVisited ==
    LET requested == SelectSeq(calls, LAMBDA c : c.op = "SetupDiGetClassDevs")
    IN [i \in 1..Len(requested) |-> requested[i].device]

\* The devices reported since the last SetupDiGetClassDevs call.
ReportedInClass ==
    LET last == CHOOSE i \in 1..Len(calls) :
                   /\ calls[i].op = "SetupDiGetClassDevs"
                   /\ \A j \in (i + 1)..Len(calls) : calls[j].op # "SetupDiGetClassDevs"
    IN SelectSeq(SubSeq(calls, last + 1, Len(calls)),
                 LAMBDA c : c.op = "SetupDiEnumDeviceInfo")

\* C21: the classes visited are always the first of GUIDs, each once and in
\* the order of GUIDs (Ports, then Modem), all of them when the generator
\* is exhausted; and inside a class the devices reported so far are those
\* at the device indexes 0, 1, ... up to index, none skipped or repeated.
EveryGuidOnceDevicesInOrder ==
    /\ Len(ClassesVisited) <= Len(GUIDs)
    /\ \A i \in 1..Len(ClassesVisited) : ClassesVisited[i] = GuidText(GUIDs[i])
    /\ pc = "done" => Len(ClassesVisited) = Len(GUIDs)
    /\ pc \in {"enum", "iocontrol", "fallback", "at_yield"} =>
          /\ Len(ReportedInClass) = index
          /\ \A k \in 1..index :
                ReportedInClass[k].device \in {LptName, ComName(Val(g_hdi), k - 1)}

\* The run has ended after a Ports class with two devices and a Modem class.
VisitedModemAfterTwoPorts ==
    /\ pc = "done"
    /\ Len(GUIDs) = 2
    /\ Len(delivered) = 2
    /\ Len(calls) >= 2 /\ calls[Len(calls)] = ClassDevsRequested(GUIDs[2])

---------------------------------------------------------------------------
\* Hub handles and registry keys during one run (Spec)

\* The hub handles opened in this run and not closed.
OpenHubHandles == {h \in 1..Len(hub_closes) : hub_closes[h] = 0}

\* C22: at any time at most one hub handle is open; while the generator
\* is at a yield no hub handle and no registry key is open; with
\* enable_iocontrol false no hub handle has been opened and
\* get_all_hub_instance_number has not been called; and every CreateFileW
\* that succeeds gives the call a handle that no earlier call had.
OneHubHandleOpenedPerAttempt ==
    /\ [](/\ Cardinality(OpenHubHandles) <= 1
          /\ pc \in {"at_yield", "suspended"} => (OpenHubHandles = {} /\ hkey_open = 0)
          /\ ~enable_iocontrol =>
                (/\ hub_closes = <<>>
                 /\ \A i \in 1..Len(calls) : calls[i].op # "get_all_hub_instance_number"))
    /\ [][(io_pc = "open" /\ io_pc' = "connection_info") =>
             /\ Len(hub_closes') = Len(hub_closes) + 1
             /\ h_hub_device' = Some(Len(hub_closes'))]_vars

\* The second port of a run is at the yield after each of the two
\* resolution attempts opened a hub handle and closed it.
SecondPortYieldedAfterTwoHandles ==
    /\ pc = "suspended" /\ enable_iocontrol
    /\ Len(delivered) = 2
    /\ hub_closes = <<1, 1>>

===========================================================================
